---- MODULE Spec2Model ----
(***************************************************************************)
(* Verification model of the hyperelasticity notebook                      *)
(* (src/hyperelasticity.ipynb): the load-stepping loop that drives the     *)
(* Newton solver, the residual/Jacobian callbacks of NonlinearPDEProblem,  *)
(* and the compressible neo-Hookean constitutive expressions.              *)
(*                                                                         *)
(* Six specifications share the module:                                    *)
(*   Spec      the load-stepping cell and the Newton solve it calls        *)
(*   SpecAsm   the callbacks NonlinearPDEProblem.F / .J on a small DOF set *)
(*   SpecCM    the constitutive expressions psi and P as pure functions    *)
(*   SpecTag   the location and tagging of the boundary facets             *)
(*   SpecMP    form(x) and F(x, b) with the DOFs on two processes          *)
(*   SpecAlias the vector object the solver and the forms share            *)
(*                                                                         *)
(* Units.  Displacements and corrections are integers in units of 1e-9,    *)
(* so that atol = 1e-8 is 10 units.  Tractions are integers in units of    *)
(* 0.1, so that tval0 = -1.5 is -15.  Logarithms are in units of 1e-3.     *)
(***************************************************************************)
EXTENDS Integers, Sequences, FiniteSets

VARIABLES
    \* ---- load stepping and Newton solve (Spec) ----
    pc,                \* position in the load-stepping cell
    n,                 \* loop variable of "for n in range(1, 10)"
    T,                 \* traction Constant T, T.value[0..2]
    u,                 \* coefficient of the Function u at the observed free DOF
    form,              \* residual form handed to the problem: "F" or "F_l"
    nstate,            \* phase of solver.solve
    iteration,         \* solver's _iteration
    residual,          \* norm of the last correction tested (_residual)
    residual0,         \* reference norm of the relative test (_residual0)
    newton_converged,  \* solver's convergence flag
    converged,         \* second component of the value solver.solve returned
    num_its,           \* first component of the value solver.solve returned
    error_on_nonconvergence, \* solver option left at the library's default
    u_l,               \* solution of the linear comparison problem
    u_conv,            \* history: u when the latest solve converged
    solve_calls,       \* history: number of solver.solve calls made
    loads,             \* history: T.value[2] at each solver.solve call
    B,                 \* body force Constant B, B.value[0..2]
    u_bc,              \* coefficients of the Function u_bc (all set alike)
    \* ---- constitutive expressions (SpecCM) ----
    cm_pc,             \* "input", "psi" (psi evaluated), "P" (P evaluated too)
    d,                 \* spatial dimension, d = len(u)
    grad_u,            \* displacement gradient at a quadrature point
    mu,                \* shear modulus
    lmbda,             \* Lame parameter
    psi_val,           \* value of psi, scaled by 2 * LnScale^2
    P_val,             \* value of P, scaled by J * LnScale
    raised,            \* exception raised by the evaluation, "none" if none
    ln_args,           \* history: the arguments ln was evaluated on
    \* ---- residual and Jacobian callbacks (SpecAsm) ----
    x,                 \* the vector of the latest solution, u.vector
    bcdofs,            \* left_dofs, the DOFs of the Dirichlet condition
    g,                 \* u_bc, the values prescribed by the condition
    L_u,               \* the form L assembled at the current solution
    a_u,               \* the form a assembled at the current solution, no bcs
    b,                 \* problem.vector, the residual buffer
    A,                 \* problem.matrix, the Jacobian buffer
    dx_last,           \* the correction of the latest Newton update
    f_calls,           \* history: calls of F since the solution last changed
    j_calls,           \* history: calls of J since the solution last changed
    b_stale,           \* history: b before the first of those calls of F
    b_first,           \* history: b after the first of those calls of F
    A_first,           \* history: A after the first of those calls of J
    \* ---- facet tagging (SpecTag) ----
    tag_pc,            \* position in the tagging cells
    facet_x,           \* x-coordinates of the vertices of each boundary facet
    left_facets,       \* facets located by left()
    right_facets,      \* facets located by right()
    marked_facets,     \* np.hstack([left_facets, right_facets])
    marked_values,     \* the tags, in the order of marked_facets
    sorted_facets,     \* np.argsort(marked_facets)
    facet_tag,         \* the MeshTags: [indices, values]
    left_dofs,         \* DOFs located on the facets tagged 1
    ds_2,              \* facets the measure ds(2) integrates over
    \* ---- distributed residual assembly (SpecMP) ----
    rank_pc,           \* position of each process in form(x); F(x, b)
    owner,             \* the process that owns each DOF
    bc_mp,             \* the prescribed DOFs
    f_el,              \* load vector of each process's element
    x_local,           \* x in local form on each process (owned and ghost)
    b_local,           \* b in local form on each process (owned and ghost)
    msgs,              \* ghost-update messages in flight
    \* ---- vector objects and references (SpecAlias) ----
    al_pc,             \* position in the loop and in solver.solve
    al_n,              \* loop variable n
    al_it,             \* solver's _iteration
    heap,              \* contents of each vector object
    x_ref,             \* the vector object solver.solve was called with
    latest,            \* history: the iterate the solver produced last
    L_read,            \* history: the displacement the form L was assembled at
    x_read,            \* history: the contents of x that F read
    a_read,            \* history: the displacement the form a was assembled at
    f_arg,             \* history: the object F received as x
    j_arg              \* history: the object J received as x

varsLS == <<pc, n, T, u, form, nstate, iteration, residual, residual0,
            newton_converged, converged, num_its, error_on_nonconvergence,
            u_l, u_conv, solve_calls, loads, B, u_bc>>

varsCM == <<cm_pc, d, grad_u, mu, lmbda, psi_val, P_val, raised, ln_args>>

varsAsm == <<x, bcdofs, g, L_u, a_u, b, A, dx_last, f_calls, j_calls,
             b_stale, b_first, A_first>>

varsTag == <<tag_pc, facet_x, left_facets, right_facets, marked_facets,
             marked_values, sorted_facets, facet_tag, left_dofs, ds_2>>

varsMP == <<rank_pc, owner, bc_mp, f_el, x_local, b_local, msgs>>

varsAl == <<al_pc, al_n, al_it, heap, x_ref, latest, L_read, x_read, a_read,
            f_arg, j_arg>>

vars == <<varsLS, varsCM, varsAsm, varsTag, varsMP, varsAl>>

(***************************************************************************)
(* Program constants                                                       *)
(***************************************************************************)
\* tval0 = -1.5, in units of 0.1
tval0 == -15
\* for n in range(1, 10)
RangeStart == 1
RangeStop == 10
\* solver.atol = 1e-8, in units of 1e-9
atol == 10
\* solver.rtol = 1e-6, kept as its reciprocal
rtol_inv == 1000000

(***************************************************************************)
(* Bounds of the model                                                     *)
(***************************************************************************)
\* maximum number of Newton iterations; the notebook leaves the solver's
\* option at the library's default, the model keeps it small
max_it == 3
\* a correction far above the tolerances, in units of 1e-9
BigStep == 30000000
\* a correction above atol that the relative test can accept, in units of 1e-9
MidStep == 20
\* a correction below atol, in units of 1e-9
SmallStep == 4
\* how many corrections of each size a displacement may hold
MaxBig == 1
MaxSmall == 1
\* displacement of the linear problem per unit (0.1) of traction
Compliance == 2

Abs(i) == IF i < 0 THEN -i ELSE i

\* corrections dx the linear solve can return for the nonlinear form F
StepDeltas == {0, SmallStep, -SmallStep, MidStep, -MidStep, BigStep, -BigStep}
\* displacements the nonlinear iteration may visit
UVals == {ks * SmallStep + km * MidStep + kb * BigStep :
            ks \in -MaxSmall..MaxSmall, km \in 0..1, kb \in 0..MaxBig}

\* T = Constant(mesh, (0, 0, 0))
ZeroTraction == [i \in 0..2 |-> 0]

\* exact solution of the linear problem (form F_l) under traction t
uLin(t) == Compliance * t[2]

(***************************************************************************)
(* Newton solver: convergence test                                         *)
(***************************************************************************)
\* r / r0 < rtol, false when r0 = 0 (the quotient is then inf or NaN)
RelativeBelowRtol(r, r0) == r0 > 0 /\ r <= (r0 - 1) \div rtol_inv

\* the solver's converged(): relative_residual < rtol or residual < atol
ConvergedTest(r, r0) == RelativeBelowRtol(r, r0) \/ r < atol

\* incremental criterion: the first iteration only records the reference norm
IncrementalConverged(it, r, r0) == IF it = 1 THEN FALSE ELSE ConvergedTest(r, r0)

\* the while loop runs one iteration too many
LoopGuardOffByOne == ~newton_converged /\ iteration <= max_it

\* condition of the solver's while loop
LoopGuard == ~newton_converged /\ iteration < max_it

\* the correction is added instead of subtracted
UpdateSignError(uu, dx) == uu + dx

\* update of the iterate with relaxation parameter 1: x <- x - dx
Update(uu, dx) == uu - dx

States == {"IDLE", "INIT", "ITERATING", "CONVERGED", "DIVERGED", "FAILED"}
Terminal == {"CONVERGED", "DIVERGED", "FAILED"}

\* the state of the load-stepping variables under the other specifications
IdleLS ==
    /\ pc = "idle"
    /\ n = 0
    /\ T = ZeroTraction
    /\ u = 0
    /\ form = "F"
    /\ nstate = "IDLE"
    /\ iteration = 0
    /\ residual = -1
    /\ residual0 = 0
    /\ newton_converged = FALSE
    /\ converged = FALSE
    /\ num_its = 0
    /\ error_on_nonconvergence = TRUE
    /\ u_l = 0
    /\ u_conv = 0
    /\ solve_calls = 0
    /\ loads = <<>>
    /\ B = ZeroTraction
    /\ u_bc = 0

\* the state of the constitutive variables under the other specifications
IdleCM ==
    /\ cm_pc = "idle"
    /\ d = 3
    /\ grad_u = [ij \in (1..3) \X (1..3) |-> 0]
    /\ mu = 1
    /\ lmbda = 1
    /\ psi_val = [finite |-> FALSE, val |-> 0]
    /\ P_val = [ij \in (1..3) \X (1..3) |-> [finite |-> FALSE, val |-> 0]]
    /\ raised = "none"
    /\ ln_args = {}

\* the state of the assembly variables under the other specifications
IdleAsm ==
    /\ x = <<>>
    /\ bcdofs = {}
    /\ g = <<>>
    /\ L_u = <<>>
    /\ a_u = <<>>
    /\ b = <<>>
    /\ A = <<>>
    /\ dx_last = <<>>
    /\ f_calls = 0
    /\ j_calls = 0
    /\ b_stale = <<>>
    /\ b_first = <<>>
    /\ A_first = <<>>

\* the state of the tagging variables under the other specifications
IdleTag ==
    /\ tag_pc = "idle"
    /\ facet_x = <<>>
    /\ left_facets = <<>>
    /\ right_facets = <<>>
    /\ marked_facets = <<>>
    /\ marked_values = <<>>
    /\ sorted_facets = <<>>
    /\ facet_tag = [indices |-> <<>>, values |-> <<>>]
    /\ left_dofs = {}
    /\ ds_2 = {}

\* the state of the distributed variables under the other specifications
IdleMP ==
    /\ rank_pc = <<>>
    /\ owner = <<>>
    /\ bc_mp = {}
    /\ f_el = <<>>
    /\ x_local = <<>>
    /\ b_local = <<>>
    /\ msgs = {}

\* the state of the reference variables under the other specifications
IdleAl ==
    /\ al_pc = "idle"
    /\ al_n = 0
    /\ al_it = 0
    /\ heap = <<>>
    /\ x_ref = "none"
    /\ latest = 0
    /\ L_read = 0
    /\ x_read = 0
    /\ a_read = 0
    /\ f_arg = "none"
    /\ j_arg = "none"

(***************************************************************************)
(* Constitutive expressions: kinematics, psi and P                         *)
(*                                                                         *)
(* A d x d tensor is a function on Idx(d) = (1..d) x (1..d).  A value is a *)
(* record [finite, val]: finite = FALSE stands for the NaN or infinity     *)
(* that floating point arithmetic yields.                                  *)
(***************************************************************************)
LnScale == 10 * 10 * 10

Idx(dd) == (1..dd) \X (1..dd)

\* natural logarithm of 1..14 in units of 1 / LnScale, rounded
LnTable == <<0, 693, 1099, 1386, 1609, 1792, 1946, 2079, 2197, 2303, 2398,
             2485, 2565, 2639>>

Finite(v) == [finite |-> TRUE, val |-> v]
NonFinite == [finite |-> FALSE, val |-> 0]

\* ufl.ln(J): a finite value for J > 0, -inf for J = 0 and NaN for J < 0
ln(j) == IF j > 0 THEN Finite(LnTable[j]) ELSE NonFinite

\* I = ufl.Identity(d)
Identity(dd) == [ij \in Idx(dd) |-> IF ij[1] = ij[2] THEN 1 ELSE 0]

\* F = I + ufl.grad(u)
DeformationGradient(dd, G) == [ij \in Idx(dd) |-> Identity(dd)[ij] + G[ij]]

RECURSIVE SumTo(_, _)
SumTo(f, k) == IF k = 0 THEN 0 ELSE f[k] + SumTo(f, k - 1)

\* C = F.T * F
RightCauchyGreen(dd, Fm) ==
    [ij \in Idx(dd) |->
        SumTo([k \in 1..dd |-> Fm[<<k, ij[1]>>] * Fm[<<k, ij[2]>>]], dd)]

\* Ic = ufl.tr(C)
Trace(dd, M) == SumTo([k \in 1..dd |-> M[<<k, k>>]], dd)

\* J = ufl.det(F), for d = 2 and d = 3
Det(dd, M) ==
    IF dd = 2
    THEN M[<<1, 1>>] * M[<<2, 2>>] - M[<<1, 2>>] * M[<<2, 1>>]
    ELSE   M[<<1, 1>>] * (M[<<2, 2>>] * M[<<3, 3>>] - M[<<2, 3>>] * M[<<3, 2>>])
         - M[<<1, 2>>] * (M[<<2, 1>>] * M[<<3, 3>>] - M[<<2, 3>>] * M[<<3, 1>>])
         + M[<<1, 3>>] * (M[<<2, 1>>] * M[<<3, 2>>] - M[<<2, 2>>] * M[<<3, 1>>])

\* the indices of 1..dd other than i, in increasing order
Others(dd, i) ==
    IF dd = 2 THEN <<3 - i>>
    ELSE IF i = 1 THEN <<2, 3>> ELSE IF i = 2 THEN <<1, 3>> ELSE <<1, 2>>

\* cofactor matrix of M: det(M) * inverse(M).T, the derivative of det
Cofactor(dd, M) ==
    [ij \in Idx(dd) |->
        LET r == Others(dd, ij[1])
            c == Others(dd, ij[2])
            sign == IF (ij[1] + ij[2]) % 2 = 0 THEN 1 ELSE -1
            minor == IF dd = 2
                     THEN M[<<r[1], c[1]>>]
                     ELSE M[<<r[1], c[1]>>] * M[<<r[2], c[2]>>]
                          - M[<<r[1], c[2]>>] * M[<<r[2], c[1]>>]
        IN sign * minor]

\* psi = (mu / 2) * (Ic - 3) - mu * ln(J) + (lmbda / 2) * ln(J)**2,
\* returned scaled by 2 * LnScale^2
psi(dd, G, m, l) ==
    LET Fm == DeformationGradient(dd, G)
        Ic == Trace(dd, RightCauchyGreen(dd, Fm))
        lnJ == ln(Det(dd, Fm))
    IN IF lnJ.finite
       THEN Finite(m * (Ic - 3) * LnScale * LnScale
                   - 2 * m * lnJ.val * LnScale
                   + l * lnJ.val * lnJ.val)
       ELSE NonFinite

\* P = ufl.diff(psi, F) = mu * F - mu * inv(F).T + lmbda * ln(J) * inv(F).T,
\* with inv(F).T = Cofactor(F) / J; returned scaled by J * LnScale
P(dd, G, m, l) ==
    LET Fm == DeformationGradient(dd, G)
        Jd == Det(dd, Fm)
        lnJ == ln(Jd)
        cof == Cofactor(dd, Fm)
    IN [ij \in Idx(dd) |->
          IF lnJ.finite
          THEN Finite(m * LnScale * (Jd * Fm[ij] - cof[ij]) + l * lnJ.val * cof[ij])
          ELSE NonFinite]

(***************************************************************************)
(* SpecCM: psi and P evaluated on every bounded input                      *)
(***************************************************************************)
GradVals == {-1, 0, 1}
Dims == {2, 3}
MuVals == {1, 3}
LmbdaVals == {1, 2}

J_det == Det(d, DeformationGradient(d, grad_u))

InitCM ==
    /\ cm_pc = "input"
    /\ d \in Dims
    /\ grad_u \in [Idx(d) -> GradVals]
    /\ mu \in MuVals
    /\ lmbda \in LmbdaVals
    /\ psi_val = NonFinite
    /\ P_val = [ij \in Idx(d) |-> NonFinite]
    /\ raised = "none"
    /\ ln_args = {}

\* the energy density is evaluated at the quadrature point; nothing in the
\* expression tests J before ln(J) is taken
EvaluatePsi ==
    /\ UNCHANGED <<varsLS, varsAsm, varsTag, varsMP, varsAl>>
    /\ cm_pc = "input"
    /\ cm_pc' = "psi"
    /\ psi_val' = psi(d, grad_u, mu, lmbda)
    /\ ln_args' = ln_args \cup {J_det}
    /\ UNCHANGED <<d, grad_u, mu, lmbda, P_val, raised>>

\* the stress is evaluated at the quadrature point, in the same way
EvaluateP ==
    /\ UNCHANGED <<varsLS, varsAsm, varsTag, varsMP, varsAl>>
    /\ cm_pc = "psi"
    /\ cm_pc' = "P"
    /\ P_val' = P(d, grad_u, mu, lmbda)
    /\ ln_args' = ln_args \cup {J_det}
    /\ UNCHANGED <<d, grad_u, mu, lmbda, psi_val, raised>>

NextCM == EvaluatePsi \/ EvaluateP

StartCM == InitCM /\ IdleLS /\ IdleAsm /\ IdleTag /\ IdleMP /\ IdleAl

SpecCM == StartCM /\ [][NextCM]_vars

\* C8: for det F <= 0 the constitutive model signals GeometricDegeneracy and
\* does not evaluate ln on the non-positive J.
C8_DegeneracySignalled ==
    (cm_pc \in {"psi", "P"} /\ J_det <= 0) =>
        /\ raised = "GeometricDegeneracy"
        /\ \A a \in ln_args : a > 0

NDofs == 2

Dofs == 1..NDofs
ZeroVec == [k \in Dofs |-> 0]
ZeroMat == [ij \in Dofs \X Dofs |-> 0]

\* sum of f[k] over the DOFs k of S
SumOver(f, S) == SumTo([k \in Dofs |-> IF k \in S THEN f[k] ELSE 0], NDofs)

MatVec(Am, v) == [i \in Dofs |-> SumTo([j \in Dofs |-> Am[<<i, j>>] * v[j]], NDofs)]

\* b_local.set(c) on the local form of b
SetLocal(bv, c) == [k \in DOMAIN bv |-> c]

\* assemble_vector(b, L): the assembled form is added into b
AssembleVector(bv, Lv) == [k \in Dofs |-> bv[k] + Lv[k]]

\* apply_lifting(b, [a], [bcs], [x0], scale): b <- b - scale * a (g - x0),
\* over the columns of the prescribed DOFs
ApplyLifting(bv, am, bcs, x0, scale) ==
    [i \in Dofs |->
        bv[i] - scale * SumOver([k \in Dofs |-> am[<<i, k>>] * (g[k] - x0[k])], bcs)]

\* b.ghostUpdate(addv=ADD, mode=REVERSE)
GhostUpdateAddReverse(bv) == bv

\* set_bc(b, bcs, x0, scale): b[k] <- scale * (g[k] - x0[k]) on prescribed DOFs
SetBC(bv, bcs, x0, scale) ==
    [k \in Dofs |-> IF k \in bcs THEN scale * (g[k] - x0[k]) ELSE bv[k]]

\* F without "b_local.set(0.0)"
ProblemFNoReset(xv, bv) ==
    SetBC(GhostUpdateAddReverse(
            ApplyLifting(AssembleVector(bv, L_u), a_u, bcdofs, xv, -1)),
          bcdofs, xv, -1)

\* F with set_bc called with its default scale 1.0
ProblemFDefaultScale(xv, bv) ==
    SetBC(GhostUpdateAddReverse(
            ApplyLifting(AssembleVector(SetLocal(bv, 0), L_u), a_u, bcdofs, xv, -1)),
          bcdofs, xv, 1)

\* NonlinearPDEProblem.F(x, b): the value b holds when the call returns
ProblemF(xv, bv) ==
    SetBC(GhostUpdateAddReverse(
            ApplyLifting(AssembleVector(SetLocal(bv, 0), L_u), a_u, bcdofs, xv, -1)),
          bcdofs, xv, -1)

\* A.zeroEntries()
ZeroEntries(Am) == [ij \in DOMAIN Am |-> 0]

\* assemble_matrix(A, a, bcs): the form is added into A with the rows and
\* columns of the prescribed DOFs left out, then 1 is added on their diagonal
AssembleMatrix(Am, am, bcs) ==
    [ij \in Dofs \X Dofs |->
        Am[ij]
        + (IF ij[1] \in bcs \/ ij[2] \in bcs THEN 0 ELSE am[ij])
        + (IF ij[1] = ij[2] /\ ij[1] \in bcs THEN 1 ELSE 0)]

\* J with assemble_matrix called without the boundary conditions
ProblemJNoBcs(xv, Am) == AssembleMatrix(ZeroEntries(Am), a_u, {})

\* NonlinearPDEProblem.J(x, A): the value A holds when the call returns
ProblemJ(xv, Am) == AssembleMatrix(ZeroEntries(Am), a_u, bcdofs)

(***************************************************************************)
(* SpecAsm: F, J and the Newton update on every bounded input              *)
(***************************************************************************)
XVals == {-1, 0, 1}
DxVals == {-2, -1, 0, 1, 2}
\* values the assembled residual form can take at a DOF
LVecs == [Dofs -> {-1, 2}]
\* values the assembled tangent can take: the sparsity of a chain of elements
RawTangents ==
    {[ij \in Dofs \X Dofs |->
        IF ij[1] = ij[2] THEN dg
        ELSE IF Abs(ij[1] - ij[2]) = 1 THEN -1 ELSE 0] :
     dg \in {1, 2}}

\* u_bc is set to zero; create_vector and create_matrix give zeroed buffers
InitAsm ==
    /\ x \in [Dofs -> XVals]
    /\ bcdofs \in (SUBSET Dofs) \ {{}}
    /\ g = ZeroVec
    /\ L_u \in LVecs
    /\ a_u \in RawTangents
    /\ b = ZeroVec
    /\ A = ZeroMat
    /\ dx_last = ZeroVec
    /\ f_calls = 0
    /\ j_calls = 0
    /\ b_stale = ZeroVec
    /\ b_first = ZeroVec
    /\ A_first = ZeroMat

\* the solver calls problem.F(x, problem.vector)
CallF ==
    /\ UNCHANGED <<varsLS, varsCM, varsTag, varsMP, varsAl>>
    /\ f_calls < 2
    /\ b' = ProblemF(x, b)
    /\ f_calls' = f_calls + 1
    /\ b_stale' = IF f_calls = 0 THEN b ELSE b_stale
    /\ b_first' = IF f_calls = 0 THEN b' ELSE b_first
    /\ UNCHANGED <<x, bcdofs, g, L_u, a_u, A, dx_last, j_calls, A_first>>

\* the solver calls problem.J(x, problem.matrix)
CallJ ==
    /\ UNCHANGED <<varsLS, varsCM, varsTag, varsMP, varsAl>>
    /\ j_calls < 2
    /\ A' = ProblemJ(x, A)
    /\ j_calls' = j_calls + 1
    /\ A_first' = IF j_calls = 0 THEN A' ELSE A_first
    /\ UNCHANGED <<x, bcdofs, g, L_u, a_u, b, dx_last, f_calls, b_stale, b_first>>

\* the solver solves A dx = b and updates x <- x - dx; the forms take new
\* values at the new solution
NewtonUpdate ==
    /\ UNCHANGED <<varsLS, varsCM, varsTag, varsMP, varsAl>>
    /\ f_calls >= 1
    /\ j_calls >= 1
    /\ \E dx \in [Dofs -> DxVals] :
         /\ MatVec(A, dx) = b
         /\ dx_last' = dx
         /\ x' = [k \in Dofs |-> Update(x[k], dx[k])]
    /\ x' \in [Dofs -> XVals]
    /\ L_u' \in LVecs
    /\ a_u' \in RawTangents
    /\ f_calls' = 0
    /\ j_calls' = 0
    /\ UNCHANGED <<bcdofs, g, b, A, b_stale, b_first, A_first>>

NextAsm == CallF \/ CallJ \/ NewtonUpdate

StartAsm == InitAsm /\ IdleLS /\ IdleCM /\ IdleTag /\ IdleMP /\ IdleAl

SpecAsm == StartAsm /\ [][NextAsm]_vars

\* C3: when F(x, b) has returned, b[k] = x[k] - g[k] at every prescribed DOF k,
\* whatever the forms contributed there and whatever b held before.
C3_BoundaryLifting ==
    f_calls >= 1 => \A k \in bcdofs : b[k] = x[k] - g[k]

\* C3 witness: F returned at a solution that does not satisfy the condition
\* at a prescribed DOF where the forms contribute, and the lifting changed
\* the residual at a free DOF
C3_Witness ==
    /\ f_calls = 1
    /\ \E k \in bcdofs :
         /\ x[k] = 1
         /\ g[k] = 0
         /\ b[k] = 1
         /\ L_u[k] # 1
         /\ a_u[<<k, k>>] # 0
    /\ \E i \in Dofs \ bcdofs : b[i] # L_u[i]

\* C4: when J(x, A) has returned, the row of every prescribed DOF k is zero
\* but for A[k][k] = 1; and a Newton update made with b[k] = 0 has dx[k] = 0
\* and leaves x[k] as it was.
C4_IdentityRows ==
    /\ [](j_calls >= 1 =>
            \A k \in bcdofs : \A j \in Dofs :
                A[<<k, j>>] = IF j = k THEN 1 ELSE 0)
    /\ [][ (f_calls >= 1 /\ f_calls' = 0) =>
             \A k \in bcdofs :
                b[k] = 0 => (dx_last'[k] = 0 /\ x'[k] = x[k]) ]_vars

\* C4 witness: an update moved a free DOF while a prescribed DOF, whose row
\* is an identity row, stayed at its prescribed value
C4_Witness ==
    /\ f_calls = 0
    /\ \E k \in bcdofs :
         /\ b[k] = 0
         /\ dx_last[k] = 0
         /\ x[k] = g[k]
         /\ A[<<k, k>>] = 1
    /\ \E i \in Dofs \ bcdofs : dx_last[i] # 0

\* C5: a second call of F at an unchanged solution leaves b as the first call
\* left it, although the first call started from an older residual and the
\* second from the first call's result; likewise J and A.
C5_Idempotent ==
    /\ f_calls >= 2 => b = b_first
    /\ j_calls >= 2 => A = A_first

\* C5 witness: two calls of F and of J at the same solution, the first call
\* of F made over a buffer that held a different, non-zero residual
C5_Witness ==
    /\ f_calls = 2
    /\ j_calls = 2
    /\ b = b_first
    /\ A = A_first
    /\ b_stale # ZeroVec
    /\ b_stale # b
    /\ \E k \in Dofs \ bcdofs : b[k] # 0

(***************************************************************************)
(* Spec: the load-stepping cell                                            *)
(***************************************************************************)
InitLS ==
    /\ pc = "for"
    /\ n = RangeStart - 1
    /\ T = ZeroTraction
    /\ u = 0
    /\ form \in {"F", "F_l"}
    /\ nstate = "IDLE"
    /\ iteration = 0
    /\ residual = -1
    /\ residual0 = 0
    /\ newton_converged = FALSE
    /\ converged = FALSE
    /\ num_its = 0
    /\ error_on_nonconvergence \in BOOLEAN
    /\ u_l = 0
    /\ u_conv = 0
    /\ solve_calls = 0
    /\ loads = <<>>
    /\ B = ZeroTraction
    /\ u_bc = 0

\* the loop body also resets the displacement before the solve
LoopBodyResetU ==
    /\ UNCHANGED <<varsCM, varsAsm, varsTag, varsMP, varsAl>>
    /\ UNCHANGED <<B, u_bc>>
    /\ pc = "for"
    /\ n + 1 < RangeStop
    /\ n' = n + 1
    /\ T' = [T EXCEPT ![2] = n' * tval0]
    /\ u' = 0
    /\ pc' = "call"
    /\ UNCHANGED <<form, nstate, iteration, residual, residual0,
                   newton_converged, converged, num_its,
                   error_on_nonconvergence, u_l, u_conv, solve_calls, loads>>

\* the loop body applies tval0 without scaling it by the step index
LoopBodyUnscaled ==
    /\ UNCHANGED <<varsCM, varsAsm, varsTag, varsMP, varsAl>>
    /\ UNCHANGED <<B, u_bc>>
    /\ pc = "for"
    /\ n + 1 < RangeStop
    /\ n' = n + 1
    /\ T' = [T EXCEPT ![2] = tval0]
    /\ pc' = "call"
    /\ UNCHANGED <<u, form, nstate, iteration, residual, residual0,
                   newton_converged, converged, num_its,
                   error_on_nonconvergence, u_l, u_conv, solve_calls, loads>>

\* for n in range(1, 10): print("Step:", n); T.value[2] = n * tval0
LoopBody ==
    /\ UNCHANGED <<varsCM, varsAsm, varsTag, varsMP, varsAl>>
    /\ UNCHANGED <<B, u_bc>>
    /\ pc = "for"
    /\ n + 1 < RangeStop
    /\ n' = n + 1
    /\ T' = [T EXCEPT ![2] = n' * tval0]
    /\ pc' = "call"
    /\ UNCHANGED <<u, form, nstate, iteration, residual, residual0,
                   newton_converged, converged, num_its,
                   error_on_nonconvergence, u_l, u_conv, solve_calls, loads>>

\* solver.solve(u.vector), up to the while loop: counters reset, form(x),
\* F(x, b); with the incremental criterion no test is made before a step
SolveInit ==
    /\ UNCHANGED <<varsCM, varsAsm, varsTag, varsMP, varsAl>>
    /\ UNCHANGED <<B, u_bc>>
    /\ pc = "call"
    /\ pc' = "newton"
    /\ nstate' = "INIT"
    /\ iteration' = 0
    /\ residual' = -1
    /\ newton_converged' = FALSE
    /\ solve_calls' = solve_calls + 1
    /\ loads' = Append(loads, T[2])
    /\ UNCHANGED <<n, T, u, form, residual0, converged, num_its,
                   error_on_nonconvergence, u_l, u_conv>>

\* loop body, first half: J(x, A) assembled at the current iterate
AssembleJacobian ==
    /\ UNCHANGED <<varsCM, varsAsm, varsTag, varsMP, varsAl>>
    /\ UNCHANGED <<B, u_bc>>
    /\ pc = "newton"
    /\ LoopGuard
    /\ pc' = "ksp"
    /\ nstate' = "ITERATING"
    /\ UNCHANGED <<n, T, u, form, iteration, residual, residual0,
                   newton_converged, converged, num_its,
                   error_on_nonconvergence, u_l, u_conv, solve_calls, loads>>

\* the corrections the linear solve J dx = b can return at iterate uu
Corrections(uu) ==
    IF form = "F_l"
    THEN {uu - uLin(T)}
    ELSE {dx \in StepDeltas : Update(uu, dx) \in UVals}

\* loop body, second half: linear solve, x <- x - dx, ++iteration, form(x),
\* F(x, b), convergence test on dx
SolveUpdate ==
    /\ UNCHANGED <<varsCM, varsAsm, varsTag, varsMP, varsAl>>
    /\ UNCHANGED <<B, u_bc>>
    /\ pc = "ksp"
    /\ \E dx \in Corrections(u) :
         /\ u' = Update(u, dx)
         /\ iteration' = iteration + 1
         /\ residual' = Abs(dx)
         /\ residual0' = IF iteration' = 1 THEN Abs(dx) ELSE residual0
         /\ newton_converged' =
                IncrementalConverged(iteration', Abs(dx), residual0')
         /\ u_conv' = IF newton_converged' THEN u' ELSE u_conv
    /\ pc' = "newton"
    /\ UNCHANGED <<n, T, form, nstate, converged, num_its,
                   error_on_nonconvergence, u_l, solve_calls, loads>>

\* the linear solve raises (singular or failed factorisation)
LinearSolveFails ==
    /\ UNCHANGED <<varsCM, varsAsm, varsTag, varsMP, varsAl>>
    /\ UNCHANGED <<B, u_bc>>
    /\ pc = "ksp"
    /\ form = "F"
    /\ pc' = "aborted"
    /\ nstate' = "FAILED"
    /\ UNCHANGED <<n, T, u, form, iteration, residual, residual0,
                   newton_converged, converged, num_its,
                   error_on_nonconvergence, u_l, u_conv, solve_calls, loads>>

\* after the while loop: return (iteration, newton_converged), or raise when the
\* solve did not converge and error_on_nonconvergence is set
SolveExit ==
    /\ UNCHANGED <<varsCM, varsAsm, varsTag, varsMP, varsAl>>
    /\ UNCHANGED <<B, u_bc>>
    /\ pc = "newton"
    /\ ~LoopGuard
    /\ nstate' = IF newton_converged THEN "CONVERGED" ELSE "DIVERGED"
    /\ IF ~newton_converged /\ error_on_nonconvergence
       THEN /\ pc' = "aborted"
            /\ UNCHANGED <<converged, num_its>>
       ELSE /\ pc' = "assert"
            /\ converged' = newton_converged
            /\ num_its' = iteration
    /\ UNCHANGED <<n, T, u, form, iteration, residual, residual0,
                   newton_converged, error_on_nonconvergence, u_l, u_conv,
                   solve_calls, loads>>

\* the returned flag is not checked
AssertSkipped ==
    /\ UNCHANGED <<varsCM, varsAsm, varsTag, varsMP, varsAl>>
    /\ UNCHANGED <<B, u_bc>>
    /\ pc = "assert"
    /\ pc' = "for"
    /\ UNCHANGED <<n, T, u, form, nstate, iteration, residual, residual0,
                   newton_converged, converged, num_its,
                   error_on_nonconvergence, u_l, u_conv, solve_calls, loads>>

\* assert(converged)
AssertConverged ==
    /\ UNCHANGED <<varsCM, varsAsm, varsTag, varsMP, varsAl>>
    /\ UNCHANGED <<B, u_bc>>
    /\ pc = "assert"
    /\ pc' = IF converged THEN "for" ELSE "aborted"
    /\ UNCHANGED <<n, T, u, form, nstate, iteration, residual, residual0,
                   newton_converged, converged, num_its,
                   error_on_nonconvergence, u_l, u_conv, solve_calls, loads>>

\* after the loop: the linear comparison problem is solved and both fields plotted
LinearComparison ==
    /\ UNCHANGED <<varsCM, varsAsm, varsTag, varsMP, varsAl>>
    /\ UNCHANGED <<B, u_bc>>
    /\ pc = "for"
    /\ ~(n + 1 < RangeStop)
    /\ u_l' = uLin(T)
    /\ pc' = "done"
    /\ UNCHANGED <<n, T, u, form, nstate, iteration, residual, residual0,
                   newton_converged, converged, num_its,
                   error_on_nonconvergence, u_conv, solve_calls, loads>>

Next ==
    \/ LoopBody
    \/ SolveInit
    \/ AssembleJacobian
    \/ SolveUpdate
    \/ LinearSolveFails
    \/ SolveExit
    \/ AssertConverged
    \/ LinearComparison

Init == InitLS /\ IdleCM /\ IdleAsm /\ IdleTag /\ IdleMP /\ IdleAl

Spec == Init /\ [][Next]_vars

(***************************************************************************)
(* Properties of the load-stepping cell and the Newton solve (Spec)        *)
(***************************************************************************)
InSolve == pc \in {"newton", "ksp"}

\* C1: a load step, the linear comparison and the plot are started only after
\* the previous step's solve returned converged = true; a solve that did not
\* converge aborts the run at that step: no later transition, no second solve
\* of the same step, no change of the load.
C1_ConvergenceRequired ==
    [][ /\ (n' = n + 1 /\ n >= RangeStart) => (converged /\ nstate = "CONVERGED")
        /\ (pc' = "done") => (converged /\ nstate = "CONVERGED")
        /\ (pc = "assert" /\ ~converged) => pc' = "aborted"
        /\ (nstate' \in {"DIVERGED", "FAILED"}) => pc' \in {"assert", "aborted"}
        /\ (pc = "aborted") => FALSE
        /\ (solve_calls' # solve_calls) => (solve_calls' = n /\ solve_calls = n - 1)
      ]_vars

\* C1 witness: the third step diverged and the assert stopped the run there
C1_Witness ==
    /\ pc = "aborted"
    /\ nstate = "DIVERGED"
    /\ ~error_on_nonconvergence
    /\ ~converged
    /\ n = 3
    /\ solve_calls = 3

\* C2: the first solve starts from the zero displacement and every later
\* solve starts from the displacement at which the previous step converged;
\* outside solver.solve the displacement is never modified.
C2_WarmStart ==
    /\ (pc \in {"call", "newton"} /\ iteration = 0 /\ n = RangeStart) => u = 0
    /\ (pc = "newton" /\ iteration = 0 /\ n > RangeStart) => u = u_conv
    /\ (pc \in {"for", "call", "assert", "done"} /\ n >= RangeStart /\ converged
            /\ nstate = "CONVERGED")
         => u = u_conv

\* C2 witness: the second solve starts from a non-zero converged displacement
C2_Witness ==
    /\ pc = "newton"
    /\ nstate = "INIT"
    /\ iteration = 0
    /\ n = 2
    /\ u # 0
    /\ u = u_conv

C10_LoadSchedule ==
    /\ n \in 0..9
    /\ Len(loads) = solve_calls
    /\ \A k \in 1..Len(loads) : loads[k] = k * tval0
    /\ \A j, k \in 1..Len(loads) : j < k => Abs(loads[j]) < Abs(loads[k])
    /\ (pc \in {"call", "newton", "ksp", "assert"}) => T[2] = n * tval0
    /\ (pc = "done") => (n = 9 /\ solve_calls = 9)
    /\ solve_calls <= 9

\* C10 witness: the run completed its ninth step under traction 9 * tval0
C10_Witness ==
    /\ pc = "done"
    /\ Len(loads) = 9
    /\ loads[9] = 9 * tval0
    /\ T[2] = -135

\* C11: at step n the y-component of the traction, T.value[1], is n * tval0;
\* the x- and z-components of T, the body force B and the Dirichlet values
\* are zero throughout the run.
C11_YComponentOnly ==
    /\ (pc \in {"call", "newton", "ksp", "assert"}) => T[1] = n * tval0
    /\ T[0] = 0
    /\ T[2] = 0
    /\ B = ZeroTraction
    /\ u_bc = 0

(***************************************************************************)
(* SpecTag: location and tagging of the boundary facets                    *)
(*                                                                         *)
(* Coordinates are integers in units of the mesh spacing along the beam    *)
(* (20 cells over the length 20).  A facet is given by the x-coordinates   *)
(* of its vertices.  Facet f carries the DOFs f and f + 1, so that         *)
(* neighbouring facets share a DOF.                                        *)
(***************************************************************************)
L == 20

NFacets == 4

Facets == 1..NFacets

IsCloseScale == 10 * 10 * 10 * 10 * 10 * 10 * 10 * 10

\* np.isclose(a, bb): |a - bb| <= atol + rtol * |bb| with the defaults
\* atol = 1e-8, rtol = 1e-5, both sides scaled by 1e8
IsClose(a, bb) == Abs(a - bb) * IsCloseScale <= 1 + 1000 * Abs(bb)

left(xv) == IsClose(xv, 0)

right(xv) == IsClose(xv, L)

\* vertex x-coordinates a boundary facet of the box can have
FacetXs == {<<0, 0>>, <<0, 1>>, <<1, 1>>, <<L - 1, L>>, <<L, L>>}

RECURSIVE SetToSortedSeq(_)
SetToSortedSeq(S) ==
    IF S = {} THEN <<>>
    ELSE LET m == CHOOSE v \in S : \A w \in S : v <= w
         IN  <<m>> \o SetToSortedSeq(S \ {m})

\* x-coordinates of the vertices of the mesh
VertexXs == {0, 1, L - 1, L}

\* locate_entities_boundary: the marker is evaluated at the vertices; the
\* result is the boundary facets all of whose vertices it marks, by
\* ascending index
LocateEntitiesBoundary(fx, marker) ==
    SetToSortedSeq({f \in DOMAIN fx :
                      \A i \in DOMAIN fx[f] : marker[fx[f][i]]})

\* np.hstack of two arrays
HStackOf(s1, s2) == s1 \o s2

\* np.full(len, value)
Full(len, value) == [i \in 1..len |-> value]

\* np.argsort(arr): the index permutations that put arr in ascending order
ArgSortOf(arr) ==
    {p \in [1..Len(arr) -> 1..Len(arr)] :
        /\ \A i, j \in 1..Len(arr) : i # j => p[i] # p[j]
        /\ \A i, j \in 1..Len(arr) : i < j => arr[p[i]] <= arr[p[j]]}

\* arr[perm]: indexing an array by an index array
Take(arr, perm) == [i \in 1..Len(perm) |-> arr[perm[i]]]

\* facet_tag.indices[facet_tag.values == value]
IndicesWithValue(ft, value) ==
    {ft.indices[i] : i \in {j \in 1..Len(ft.indices) : ft.values[j] = value}}

\* DOFs located on a facet
FacetDofs(f) == {f, f + 1}

\* locate_dofs_topological(V, dim, facets)
LocateDofsTopological(fs) == UNION {FacetDofs(f) : f \in fs}

InitTag ==
    /\ tag_pc = "locate"
    /\ facet_x \in [Facets -> FacetXs]
    /\ left_facets = <<>>
    /\ right_facets = <<>>
    /\ marked_facets = <<>>
    /\ marked_values = <<>>
    /\ sorted_facets = <<>>
    /\ facet_tag = [indices |-> <<>>, values |-> <<>>]
    /\ left_dofs = {}
    /\ ds_2 = {}

\* left_facets, right_facets = locate_entities_boundary(..., left / right)
LocateEntities ==
    /\ UNCHANGED <<varsLS, varsCM, varsAsm, varsMP, varsAl>>
    /\ tag_pc = "locate"
    /\ left_facets' = LocateEntitiesBoundary(facet_x, [xv \in VertexXs |-> left(xv)])
    /\ right_facets' = LocateEntitiesBoundary(facet_x, [xv \in VertexXs |-> right(xv)])
    /\ tag_pc' = "hstack"
    /\ UNCHANGED <<facet_x, marked_facets, marked_values, sorted_facets,
                   facet_tag, left_dofs, ds_2>>

\* marked_facets = np.hstack(...); marked_values = np.hstack(...)
HStack ==
    /\ UNCHANGED <<varsLS, varsCM, varsAsm, varsMP, varsAl>>
    /\ tag_pc = "hstack"
    /\ marked_facets' = HStackOf(left_facets, right_facets)
    /\ marked_values' = HStackOf(Full(Len(left_facets), 1),
                                 Full(Len(right_facets), 2))
    /\ tag_pc' = "argsort"
    /\ UNCHANGED <<facet_x, left_facets, right_facets, sorted_facets,
                   facet_tag, left_dofs, ds_2>>

\* sorted_facets = np.argsort(marked_facets)
ArgSort ==
    /\ UNCHANGED <<varsLS, varsCM, varsAsm, varsMP, varsAl>>
    /\ tag_pc = "argsort"
    /\ sorted_facets' \in ArgSortOf(marked_facets)
    /\ tag_pc' = "meshtags"
    /\ UNCHANGED <<facet_x, left_facets, right_facets, marked_facets,
                   marked_values, facet_tag, left_dofs, ds_2>>

\* the values are handed over in the order of concatenation
MeshTagsValuesUnsorted ==
    /\ UNCHANGED <<varsLS, varsCM, varsAsm, varsMP, varsAl>>
    /\ tag_pc = "meshtags"
    /\ facet_tag' = [indices |-> Take(marked_facets, sorted_facets),
                     values  |-> marked_values]
    /\ tag_pc' = "dofs"
    /\ UNCHANGED <<facet_x, left_facets, right_facets, marked_facets,
                   marked_values, sorted_facets, left_dofs, ds_2>>

\* facet_tag = MeshTags(mesh, dim - 1, marked_facets[sorted_facets],
\*                      marked_values[sorted_facets])
MeshTags ==
    /\ UNCHANGED <<varsLS, varsCM, varsAsm, varsMP, varsAl>>
    /\ tag_pc = "meshtags"
    /\ facet_tag' = [indices |-> Take(marked_facets, sorted_facets),
                     values  |-> Take(marked_values, sorted_facets)]
    /\ tag_pc' = "dofs"
    /\ UNCHANGED <<facet_x, left_facets, right_facets, marked_facets,
                   marked_values, sorted_facets, left_dofs, ds_2>>

\* left_dofs = locate_dofs_topological(V, facet_tag.dim,
\*                 facet_tag.indices[facet_tag.values == 1]); bcs = [...]
LocateDofs ==
    /\ UNCHANGED <<varsLS, varsCM, varsAsm, varsMP, varsAl>>
    /\ tag_pc = "dofs"
    /\ left_dofs' = LocateDofsTopological(IndicesWithValue(facet_tag, 1))
    /\ tag_pc' = "measure"
    /\ UNCHANGED <<facet_x, left_facets, right_facets, marked_facets,
                   marked_values, sorted_facets, facet_tag, ds_2>>

\* ds = ufl.Measure('ds', subdomain_data=facet_tag); the term ... * ds(2)
Measure ==
    /\ UNCHANGED <<varsLS, varsCM, varsAsm, varsMP, varsAl>>
    /\ tag_pc = "measure"
    /\ ds_2' = IndicesWithValue(facet_tag, 2)
    /\ tag_pc' = "done"
    /\ UNCHANGED <<facet_x, left_facets, right_facets, marked_facets,
                   marked_values, sorted_facets, facet_tag, left_dofs>>

NextTag ==
    \/ LocateEntities
    \/ HStack
    \/ ArgSort
    \/ MeshTags
    \/ LocateDofs
    \/ Measure

StartTag == InitTag /\ IdleLS /\ IdleCM /\ IdleAsm /\ IdleMP /\ IdleAl

SpecTag == StartTag /\ [][NextTag]_vars

\* the facets on the plane x = 0 and on the plane x = L, from the geometry
OnPlane(xp) == {f \in Facets : \A i \in DOMAIN facet_x[f] : facet_x[f][i] = xp}

\* C12: the tagged facet indices ascend; a facet is tagged 1 exactly if
\* left() found it and 2 exactly if right() found it, each facet once; the
\* Dirichlet condition holds the DOFs of exactly the facets tagged 1, which
\* are the left facets, and ds(2) integrates over exactly the right facets.
C12_FacetTagging ==
    /\ (tag_pc \in {"dofs", "measure", "done"}) =>
         /\ Len(facet_tag.indices) = Len(facet_tag.values)
         /\ \A i, j \in 1..Len(facet_tag.indices) :
                i < j => facet_tag.indices[i] < facet_tag.indices[j]
         /\ \A i \in 1..Len(facet_tag.indices) :
                /\ facet_tag.values[i] = 1 <=> facet_tag.indices[i] \in OnPlane(0)
                /\ facet_tag.values[i] = 2 <=> facet_tag.indices[i] \in OnPlane(L)
         /\ OnPlane(0) \cup OnPlane(L)
                = {facet_tag.indices[i] : i \in 1..Len(facet_tag.indices)}
    /\ (tag_pc \in {"measure", "done"}) =>
         left_dofs = UNION {FacetDofs(f) : f \in OnPlane(0)}
    /\ (tag_pc = "done") => ds_2 = OnPlane(L)

\* C12 witness: tagging is complete and a right facet has a smaller index
\* than a left facet, so that the sort interleaves the two arrays
C12_Witness ==
    /\ tag_pc = "done"
    /\ \E fl \in OnPlane(0) : \E fr \in OnPlane(L) : fr < fl
    /\ \E fl \in OnPlane(0) : \E fr \in OnPlane(L) : fl < fr
    /\ left_dofs # {}
    /\ ds_2 # {}

(***************************************************************************)
(* SpecMP: form(x) and F(x, b) with the DOFs distributed over processes    *)
(*                                                                         *)
(* Two processes hold one element each of a chain of three DOFs; the       *)
(* middle DOF lies on both elements, is owned by one of the processes and  *)
(* is a ghost on the other.  A ghost update is a send half and a receive   *)
(* half; the receive half waits for the messages of the other process.     *)
(***************************************************************************)
Procs == {1, 2}

MPDofs == {1, 2, 3}

\* the DOFs in the local form of a vector on process p
LocalDofs(p) == IF p = 1 THEN {1, 2} ELSE {2, 3}

OwnedDofs(p) == {k \in LocalDofs(p) : owner[k] = p}

GhostDofs(p) == LocalDofs(p) \ OwnedDofs(p)

\* the values prescribed by u_bc
g_mp == [k \in MPDofs |-> 0]

\* element tangent of the element of process p
K_el(p) == [kj \in LocalDofs(p) \X LocalDofs(p) |->
              IF kj[1] = kj[2] THEN 1 ELSE -1]

RECURSIVE SumSet(_, _)
SumSet(f, S) ==
    IF S = {} THEN 0
    ELSE LET e == CHOOSE v \in S : TRUE
         IN  f[e] + SumSet(f, S \ {e})

\* assemble_vector on process p: the element residual at the local x,
\* added into every local entry, ghosts included
AssembleVectorLocal(p, bl, xl) ==
    [k \in LocalDofs(p) |->
        bl[k] + SumSet([j \in LocalDofs(p) |-> K_el(p)[<<k, j>>] * xl[j]],
                       LocalDofs(p))
              - f_el[p][k]]

\* apply_lifting on process p: b -= scale * A_el (g - x0) over the
\* prescribed columns of the element
ApplyLiftingLocal(p, bl, xl, scale) ==
    [k \in LocalDofs(p) |->
        bl[k] - scale *
            SumSet([j \in LocalDofs(p) |-> K_el(p)[<<k, j>>] * (g_mp[j] - xl[j])],
                   LocalDofs(p) \cap bc_mp)]

\* set_bc on process p: the owned prescribed entries
SetBCLocal(p, bl, xl, scale) ==
    [k \in LocalDofs(p) |->
        IF k \in bc_mp /\ k \in OwnedDofs(p)
        THEN scale * (g_mp[k] - xl[k]) ELSE bl[k]]

\* InsertMode.INSERT: the received value replaces the entry
ScatterInsert(own, recv) == recv

\* the reverse update inserts where it should add
ScatterAddReplaces(own, recv) == recv

\* InsertMode.ADD: the received ghost value is added to the owner's value
ScatterAdd(own, recv) == own + recv

Msg(kind, src, dst, dof, val) ==
    [kind |-> kind, src |-> src, dst |-> dst, dof |-> dof, val |-> val]

StaleVals == {0, 1}

FVals == {-1, 2}

InitMP ==
    /\ rank_pc = [p \in Procs |-> "form_begin"]
    /\ owner \in {o \in [MPDofs -> Procs] : o[1] = 1 /\ o[3] = 2}
    /\ bc_mp \in (SUBSET MPDofs) \ {{}}
    /\ f_el \in {f \in [Procs -> [MPDofs -> FVals \cup {0}]] :
                   \A p \in Procs : \A k \in MPDofs :
                      /\ k \notin LocalDofs(p) => f[p][k] = 0
                      /\ k \in LocalDofs(p) =>
                            f[p][k] \in (IF k = 2 THEN FVals ELSE {2})}
    /\ x_local \in {xx \in [Procs -> [MPDofs -> StaleVals]] :
                   \A p \in Procs : \A k \in MPDofs \ LocalDofs(p) : xx[p][k] = 0}
    /\ b_local \in {bb \in [Procs -> [MPDofs -> StaleVals]] :
                   \A p \in Procs : \A k \in MPDofs :
                      (k # 2) => bb[p][k] = 0}
    /\ msgs = {}

\* form(x), x.ghostUpdate(INSERT, FORWARD), send half: the owner sends its
\* values to the processes that hold them as ghosts
FormBegin(p) ==
    /\ UNCHANGED <<varsLS, varsCM, varsAsm, varsTag, varsAl>>
    /\ rank_pc[p] = "form_begin"
    /\ msgs' = msgs \cup
         {Msg("fwd", p, q, k, x_local[p][k]) :
            <<q, k>> \in {qk \in Procs \X MPDofs :
                            /\ qk[1] # p
                            /\ qk[2] \in OwnedDofs(p)
                            /\ qk[2] \in GhostDofs(qk[1])}}
    /\ rank_pc' = [rank_pc EXCEPT ![p] = "form_end"]
    /\ UNCHANGED <<owner, bc_mp, f_el, x_local, b_local>>

\* form(x), receive half: the ghost entries take the owners' values
FormEnd(p) ==
    /\ UNCHANGED <<varsLS, varsCM, varsAsm, varsTag, varsAl>>
    /\ rank_pc[p] = "form_end"
    /\ \A k \in GhostDofs(p) :
          \E m \in msgs : m.kind = "fwd" /\ m.dst = p /\ m.dof = k
    /\ LET in == {m \in msgs : m.kind = "fwd" /\ m.dst = p}
       IN  /\ x_local' = [x_local EXCEPT ![p] =
                 [k \in MPDofs |->
                    IF k \in GhostDofs(p)
                    THEN ScatterInsert(x_local[p][k],
                           (CHOOSE m \in in : m.dof = k).val)
                    ELSE x_local[p][k]]]
           /\ msgs' = msgs \ in
    /\ rank_pc' = [rank_pc EXCEPT ![p] = "assemble"]
    /\ UNCHANGED <<owner, bc_mp, f_el, b_local>>

\* F(x, b) up to the ghost update: b_local.set(0.0); assemble_vector;
\* apply_lifting(b, [a], [bcs], [x], -1.0)
AssembleLocal(p) ==
    /\ UNCHANGED <<varsLS, varsCM, varsAsm, varsTag, varsAl>>
    /\ rank_pc[p] = "assemble"
    /\ LET zero == [k \in LocalDofs(p) |-> 0]
           asm  == AssembleVectorLocal(p, zero, x_local[p])
           lift == ApplyLiftingLocal(p, asm, x_local[p], -1)
       IN  b_local' = [b_local EXCEPT ![p] =
                 [k \in MPDofs |-> IF k \in LocalDofs(p) THEN lift[k] ELSE 0]]
    /\ rank_pc' = [rank_pc EXCEPT ![p] = "rev_begin"]
    /\ UNCHANGED <<owner, bc_mp, f_el, x_local, msgs>>

\* b.ghostUpdate(ADD, REVERSE), send half: the ghost entries go to their owners
ReverseBegin(p) ==
    /\ UNCHANGED <<varsLS, varsCM, varsAsm, varsTag, varsAl>>
    /\ rank_pc[p] = "rev_begin"
    /\ msgs' = msgs \cup
         {Msg("rev", p, owner[k], k, b_local[p][k]) : k \in GhostDofs(p)}
    /\ rank_pc' = [rank_pc EXCEPT ![p] = "rev_end"]
    /\ UNCHANGED <<owner, bc_mp, f_el, x_local, b_local>>

\* b.ghostUpdate(ADD, REVERSE), receive half: the owner adds what the
\* processes holding its DOFs as ghosts sent
ReverseEnd(p) ==
    /\ UNCHANGED <<varsLS, varsCM, varsAsm, varsTag, varsAl>>
    /\ rank_pc[p] = "rev_end"
    /\ \A q \in Procs \ {p} : \A k \in OwnedDofs(p) \cap GhostDofs(q) :
          \E m \in msgs : m.kind = "rev" /\ m.dst = p /\ m.src = q /\ m.dof = k
    /\ LET in == {m \in msgs : m.kind = "rev" /\ m.dst = p}
       IN  /\ b_local' = [b_local EXCEPT ![p] =
                 [k \in MPDofs |->
                    IF \E m \in in : m.dof = k
                    THEN ScatterAdd(b_local[p][k],
                           (CHOOSE m \in in : m.dof = k).val)
                    ELSE b_local[p][k]]]
           /\ msgs' = msgs \ in
    /\ rank_pc' = [rank_pc EXCEPT ![p] = "set_bc"]
    /\ UNCHANGED <<owner, bc_mp, f_el, x_local>>

\* dolfinx.fem.set_bc(b, self.bcs, x, -1.0)
SetBCStep(p) ==
    /\ UNCHANGED <<varsLS, varsCM, varsAsm, varsTag, varsAl>>
    /\ rank_pc[p] = "set_bc"
    /\ b_local' = [b_local EXCEPT ![p] =
          [k \in MPDofs |->
             IF k \in LocalDofs(p)
             THEN SetBCLocal(p, b_local[p], x_local[p], -1)[k] ELSE 0]]
    /\ rank_pc' = [rank_pc EXCEPT ![p] = "done"]
    /\ UNCHANGED <<owner, bc_mp, f_el, x_local, msgs>>

NextMP ==
    \E p \in Procs :
        \/ FormBegin(p)
        \/ FormEnd(p)
        \/ AssembleLocal(p)
        \/ ReverseBegin(p)
        \/ ReverseEnd(p)
        \/ SetBCStep(p)

StartMP == InitMP /\ IdleLS /\ IdleCM /\ IdleAsm /\ IdleTag /\ IdleAl

SpecMP == StartMP /\ [][NextMP]_vars

\* the solution as the owners hold it
x_owned == [k \in MPDofs |-> x_local[owner[k]][k]]

\* what one process computing both elements at x_owned has in b[k] after
\* assembly and lifting
SerialResidual(k) ==
    SumSet([p \in Procs |->
              IF k \in LocalDofs(p)
              THEN ApplyLiftingLocal(p,
                     AssembleVectorLocal(p, [j \in LocalDofs(p) |-> 0], x_owned),
                     x_owned, -1)[k]
              ELSE 0],
           Procs)

\* C13: once form(x) has returned on a process its ghost copies of x equal
\* the owners' values; once F has returned on the owner of a DOF k, b[k] is
\* x[k] - g[k] if k is prescribed, and otherwise the sum of the
\* contributions of all processes, each counted once.
C13_CountedOnce ==
    \A p \in Procs :
        /\ (rank_pc[p] \notin {"form_begin", "form_end"}) =>
              \A k \in GhostDofs(p) : x_local[p][k] = x_owned[k]
        /\ (rank_pc[p] = "done") =>
              \A k \in OwnedDofs(p) :
                  b_local[p][k] = IF k \in bc_mp
                                  THEN x_owned[k] - g_mp[k]
                                  ELSE SerialResidual(k)

\* C13 witness: F returned on both processes; the shared DOF is prescribed
\* and off its prescribed value, its owner holds x[k] - g[k] for it, and the
\* other process contributed a non-zero ghost value for it
C13_Witness ==
    /\ \A p \in Procs : rank_pc[p] = "done"
    /\ 2 \in bc_mp
    /\ x_owned[2] # g_mp[2]
    /\ b_local[owner[2]][2] = x_owned[2] - g_mp[2]
    /\ \E q \in Procs : 2 \in GhostDofs(q) /\ b_local[q][2] # 0

(***************************************************************************)
(* SpecAlias: which vector object the callbacks read                       *)
(*                                                                         *)
(* A vector is an object on the heap; a name holds a reference to it.  The *)
(* forms L and a were built from the Function u and read the object        *)
(* u.vector; the solver holds the object it was called with as x, updates  *)
(* it in place and passes it to F and J.  One coefficient is observed.     *)
(***************************************************************************)
MaxAbsX == 2

Refs == {"u_vector", "copy"}

AlDeltas == {-1, 0, 1}

\* the solver is handed a copy of the vector of u
SolveArgumentCopy == "copy"

\* the argument of solver.solve(u.vector)
SolveArgument == "u_vector"

InitAl ==
    /\ al_pc = "for"
    /\ al_n = RangeStart - 1
    /\ al_it = 0
    /\ heap = [r \in Refs |-> 0]
    /\ x_ref = "none"
    /\ latest = 0
    /\ L_read = 0
    /\ x_read = 0
    /\ a_read = 0
    /\ f_arg = "none"
    /\ j_arg = "none"

\* for n in range(1, 10): ...; solver.solve(u.vector): the argument is
\* evaluated and the solver starts from its contents
SolveCall ==
    /\ UNCHANGED <<varsLS, varsCM, varsAsm, varsTag, varsMP>>
    /\ al_pc = "for"
    /\ al_n + 1 < RangeStop
    /\ al_n' = al_n + 1
    /\ x_ref' = SolveArgument
    /\ heap' = IF SolveArgument = "u_vector" THEN heap
               ELSE [heap EXCEPT ![SolveArgument] = heap["u_vector"]]
    /\ latest' = heap'[x_ref']
    /\ al_it' = 0
    /\ al_pc' = "F"
    /\ UNCHANGED <<L_read, x_read, a_read, f_arg, j_arg>>

\* the solver calls form(x); F(x, b): assemble_vector reads the Function u
\* through the form L, apply_lifting and set_bc read x
SolverCallsF ==
    /\ UNCHANGED <<varsLS, varsCM, varsAsm, varsTag, varsMP>>
    /\ al_pc = "F"
    /\ f_arg' = x_ref
    /\ L_read' = heap["u_vector"]
    /\ x_read' = heap[x_ref]
    /\ al_pc' = IF al_it = 0 THEN "J" ELSE "test"
    /\ UNCHANGED <<al_n, al_it, heap, x_ref, latest, a_read, j_arg>>

\* the solver calls J(x, A): assemble_matrix reads the Function u through
\* the form a
SolverCallsJ ==
    /\ UNCHANGED <<varsLS, varsCM, varsAsm, varsTag, varsMP>>
    /\ al_pc = "J"
    /\ j_arg' = x_ref
    /\ a_read' = heap["u_vector"]
    /\ al_pc' = "update"
    /\ UNCHANGED <<al_n, al_it, heap, x_ref, latest, L_read, x_read, f_arg>>

\* linear solve and update of x in place, x <- x - dx
UpdateInPlace ==
    /\ UNCHANGED <<varsLS, varsCM, varsAsm, varsTag, varsMP>>
    /\ al_pc = "update"
    /\ \E dx \in AlDeltas :
         /\ Abs(Update(heap[x_ref], dx)) <= MaxAbsX
         /\ heap' = [heap EXCEPT ![x_ref] = Update(heap[x_ref], dx)]
    /\ latest' = heap'[x_ref]
    /\ al_it' = al_it + 1
    /\ al_pc' = "F"
    /\ UNCHANGED <<al_n, x_ref, L_read, x_read, a_read, f_arg, j_arg>>

\* convergence test: the solve returns converged, iterates again, or returns
\* not converged and the assert stops the run
TestAndReturn ==
    /\ UNCHANGED <<varsLS, varsCM, varsAsm, varsTag, varsMP>>
    /\ al_pc = "test"
    /\ \/ al_pc' = "for"
       \/ al_it < max_it /\ al_pc' = "J"
       \/ al_it >= max_it /\ al_pc' = "aborted"
    /\ UNCHANGED <<al_n, al_it, heap, x_ref, latest, L_read, x_read, a_read,
                   f_arg, j_arg>>

NextAl ==
    \/ SolveCall
    \/ SolverCallsF
    \/ SolverCallsJ
    \/ UpdateInPlace
    \/ TestAndReturn

StartAl == InitAl /\ IdleLS /\ IdleCM /\ IdleAsm /\ IdleTag /\ IdleMP

SpecAlias == StartAl /\ [][NextAl]_vars

\* C14: F and J always receive the vector object of u as x; what the form
\* L read, what F read from x, and what the form a read are the iterate the
\* solver produced last.
C14_IterateAliasing ==
    /\ f_arg \in {"none", "u_vector"}
    /\ j_arg \in {"none", "u_vector"}
    /\ (al_pc \in {"J", "test"}) =>
          /\ L_read = latest
          /\ x_read = latest
          /\ heap["u_vector"] = latest
    /\ (al_pc = "update") => a_read = latest

\* C14 witness: in the second load step F was called after two updates, the
\* last of which changed the iterate, and read the new iterate
C14_Witness ==
    /\ al_pc = "test"
    /\ al_n = 2
    /\ al_it = 2
    /\ f_arg = "u_vector"
    /\ L_read = latest
    /\ x_read = latest
    /\ a_read # latest

====
